---- MODULE Spec2Model ----
(***************************************************************************)
(* Model of Lambdas/document_processor.py: the document ingest handler     *)
(* (lambda_handler) and the helpers it calls.                              *)
(*                                                                         *)
(* Python values are modelled as tagged records, so that the dynamic       *)
(* typing of the code (json.loads may return any JSON value, .get exists   *)
(* only on dicts, len() only on sized values) is part of the model.        *)
(* Strings are sequences of one-character strings.                         *)
(***************************************************************************)
EXTENDS Integers, Sequences, FiniteSets, TLC

VARIABLES
    pdfplumber,            \* module global: the optional import succeeded
    openai,                \* module global: the optional import succeeded
    OPENAI_API_KEY,        \* module global: the environment variable is set
    RESULTS_CALLBACK_URL,  \* module global: the environment variable is set
    event,                 \* the argument of lambda_handler
    env,                   \* what the collaborators answer (fixed per document)
    run,                   \* number of the invocation in this process
    clock,                 \* time.time()
    start,                 \* local of lambda_handler: the time at entry
    pc,                    \* position inside lambda_handler
    body, correlation_id, document_b64, pdf_bytes,
    text, biller, extracted, errors, norm, status, item,
    response,              \* the value lambda_handler returned
    effects,               \* stages run and outward calls made by this invocation
    last,                  \* the results of the previous invocation
    rn, rn_result          \* is_valid_routing_number: argument and outcome

vars == << pdfplumber, openai, OPENAI_API_KEY, RESULTS_CALLBACK_URL, event, env,
           run, clock, start, pc, body, correlation_id, document_b64, pdf_bytes,
           text, biller, extracted, errors, norm, status, item, response,
           effects, last, rn, rn_result >>

config == <<pdfplumber, openai, OPENAI_API_KEY, RESULTS_CALLBACK_URL>>
routingVars == <<rn, rn_result>>

handlerVars == << pdfplumber, openai, OPENAI_API_KEY, RESULTS_CALLBACK_URL, event,
                  env, run, clock, start, pc, body, correlation_id, document_b64,
                  pdf_bytes, text, biller, extracted, errors, norm, status,
                  item, response, effects, last >>

-----------------------------------------------------------------------------
(* Bounds *)

\* invocations handled by one process
MaxRuns == 2
\* the ASCII digits "0" .. MaxDigit used to enumerate nine-character strings
MaxDigit == 2

-----------------------------------------------------------------------------
(* Python values *)

None == [t |-> "null", s |-> <<>>, n |-> 0]
Str(s) == [t |-> "str", s |-> s, n |-> 0]
Num(n) == [t |-> "num", s |-> <<>>, n |-> n]
Bool(b) == [t |-> "bool", s |-> <<>>, n |-> IF b THEN 1 ELSE 0]
\* a list, abstracted to its length
List(n) == [t |-> "list", s |-> <<>>, n |-> n]
\* a dict: a function from its keys to values
Dict(o) == [t |-> "dict", o |-> o]
EmptyDict == Dict([k \in {} |-> None])

\* bool(v)
Truthy(v) ==
    CASE v.t = "null" -> FALSE
      [] v.t = "bool" -> v.n = 1
      [] v.t = "num" -> v.n # 0
      [] v.t = "str" -> Len(v.s) > 0
      [] v.t = "list" -> v.n > 0
      [] v.t = "dict" -> DOMAIN v.o # {}
      [] OTHER -> TRUE

\* d.get(k) and d.get(k, default) on a dict d
Get(d, k) == IF k \in DOMAIN d.o THEN d.o[k] ELSE None
GetDefault(d, k, default) == IF k \in DOMAIN d.o THEN d.o[k] ELSE default

\* outcomes of a call: a returned value or a raised exception
Ret(v) == [exc |-> "none", val |-> v]
Raise(e) == [exc |-> e, val |-> None]

-----------------------------------------------------------------------------
(* Characters *)

DigitChars == <<"0", "1", "2", "3", "4", "5", "6", "7", "8", "9">>
IsAsciiDigit(c) == \E i \in 1..10 : DigitChars[i] = c

\* "sup2" is U+00B2 SUPERSCRIPT TWO: str.isdigit() accepts it, int() rejects it.
\* "ar3" is U+0663 ARABIC-INDIC DIGIT THREE: a decimal digit, int() gives 3.
\* c.isdigit()
CharIsDigit(c) == IsAsciiDigit(c) \/ c \in {"sup2", "ar3"}
\* int(c) is defined
CharHasInt(c) == IsAsciiDigit(c) \/ c = "ar3"
\* int(c)
CharInt(c) ==
    IF c = "ar3" THEN 3 ELSE (CHOOSE i \in 1..10 : DigitChars[i] = c) - 1

-----------------------------------------------------------------------------
(* is_valid_routing_number *)

RoutingLen == 9

\* s.isdigit(): every character is a digit and there is at least one
StrIsDigit(s) == Len(s) > 0 /\ \A i \in 1..Len(s) : CharIsDigit(s[i])

ChecksumWrongWeights(d) ==
    3 * (d[1] + d[4] + d[7]) + 1 * (d[2] + d[5] + d[8]) + 7 * (d[3] + d[6] + d[9])

Checksum(d) ==
    3 * (d[1] + d[4] + d[7]) + 7 * (d[2] + d[5] + d[8]) + 1 * (d[3] + d[6] + d[9])

\* the outcome of is_valid_routing_number(v) for any Python value v
is_valid_routing_number(v) ==
    IF ~Truthy(v) THEN Ret(Bool(FALSE))
    ELSE IF v.t \in {"num", "bool"} THEN Raise("TypeError")      \* len(rn)
    ELSE IF v.t = "list" THEN
        IF v.n # RoutingLen THEN Ret(Bool(FALSE)) ELSE Raise("AttributeError")
    ELSE IF v.t = "dict" THEN
        IF Cardinality(DOMAIN v.o) # RoutingLen THEN Ret(Bool(FALSE))
        ELSE Raise("AttributeError")
    ELSE IF Len(v.s) # RoutingLen \/ ~StrIsDigit(v.s) THEN Ret(Bool(FALSE))
    ELSE IF \E i \in 1..Len(v.s) : ~CharHasInt(v.s[i]) THEN Raise("ValueError")
    ELSE Ret(Bool(Checksum([i \in 1..RoutingLen |-> CharInt(v.s[i])]) % 10 = 0))

-----------------------------------------------------------------------------
(* base64.b64decode *)

\* the base64 alphabet; the value of a character is its position minus one
B64Chars ==
    << "A", "B", "C", "D", "E", "F", "G", "H", "I", "J", "K", "L", "M", "N",
       "O", "P", "Q", "R", "S", "T", "U", "V", "W", "X", "Y", "Z", "a", "b",
       "c", "d", "e", "f", "g", "h", "i", "j", "k", "l", "m", "n", "o", "p",
       "q", "r", "s", "t", "u", "v", "w", "x", "y", "z", "0", "1", "2", "3",
       "4", "5", "6", "7", "8", "9", "+", "/" >>
IsB64Char(c) == \E i \in 1..64 : B64Chars[i] = c
B64Value(c) == (CHOOSE i \in 1..64 : B64Chars[i] = c) - 1

\* "e_acute" is U+00E9, a character outside ASCII
IsAscii(c) == c # "e_acute"

Bytes(b) == [t |-> "bytes", b |-> b]

\* the bytes that a run of six-bit values holds
SextetsToBytes(acc) ==
    LET nbytes == (Len(acc) * 6) \div 8
        ByteAt(j) ==
            LET g == 4 * ((j - 1) \div 3)
                r == (j - 1) % 3
            IN  CASE r = 0 -> acc[g + 1] * 4 + acc[g + 2] \div 16
                  [] r = 1 -> (acc[g + 2] % 16) * 16 + acc[g + 3] \div 4
                  [] OTHER -> (acc[g + 3] % 4) * 64 + acc[g + 4]
    IN  [j \in 1..nbytes |-> ByteAt(j)]

\* binascii.a2b_base64 in its default, non-strict mode: characters outside the
\* alphabet are skipped, a complete pad sequence ends the parse, and data
\* that stops inside a quad is an error.
RECURSIVE A2bBase64(_, _, _, _, _)
A2bBase64(s, i, quad_pos, pads, acc) ==
    IF i > Len(s) THEN
        IF quad_pos # 0 THEN Raise("binascii.Error") ELSE Ret(Bytes(SextetsToBytes(acc)))
    ELSE IF s[i] = "=" THEN
        IF quad_pos >= 2 /\ quad_pos + pads + 1 >= 4
        THEN Ret(Bytes(SextetsToBytes(acc)))
        ELSE A2bBase64(s, i + 1, quad_pos, IF quad_pos >= 2 THEN pads + 1 ELSE pads, acc)
    ELSE IF ~IsB64Char(s[i]) THEN A2bBase64(s, i + 1, quad_pos, pads, acc)
    ELSE A2bBase64(s, i + 1, (quad_pos + 1) % 4, 0, Append(acc, B64Value(s[i])))

\* base64.b64decode(v) for any Python value v
B64Decode(v) ==
    IF v.t # "str" THEN Raise("TypeError")
    ELSE IF \E i \in 1..Len(v.s) : ~IsAscii(v.s[i]) THEN Raise("ValueError")
    ELSE A2bBase64(v.s, 1, 0, 0, <<>>)

-----------------------------------------------------------------------------
(* str helpers *)

UpperChars ==
    << "A", "B", "C", "D", "E", "F", "G", "H", "I", "J", "K", "L", "M", "N",
       "O", "P", "Q", "R", "S", "T", "U", "V", "W", "X", "Y", "Z" >>
LowerChars ==
    << "a", "b", "c", "d", "e", "f", "g", "h", "i", "j", "k", "l", "m", "n",
       "o", "p", "q", "r", "s", "t", "u", "v", "w", "x", "y", "z" >>
LowerChar(c) ==
    IF \E i \in 1..26 : UpperChars[i] = c
    THEN LowerChars[CHOOSE i \in 1..26 : UpperChars[i] = c]
    ELSE c
\* s.lower()
Lower(s) == [i \in 1..Len(s) |-> LowerChar(s[i])]
\* needle in hay
Contains(hay, needle) ==
    \E i \in 0..(Len(hay) - Len(needle)) : SubSeq(hay, i + 1, i + Len(needle)) = needle

\* sep.join(parts)
RECURSIVE Join(_, _)
Join(parts, sep) ==
    IF Len(parts) = 0 THEN <<>>
    ELSE IF Len(parts) = 1 THEN parts[1]
    ELSE parts[1] \o sep \o Join(Tail(parts), sep)

-----------------------------------------------------------------------------
(* detect_biller *)

\* the patterns table, in its declared order
patterns ==
    << [biller |-> <<"A", "T", "&", "T">>,
         kws |-> << <<"A", "T", "&", "T">>,
                    <<"A", "T", "T">>,
                    <<"a", "t", "t", ".", "c", "o", "m">> >>],
       [biller |-> <<"X", "f", "i", "n", "i", "t", "y">>,
         kws |-> << <<"X", "f", "i", "n", "i", "t", "y">>,
                    <<"C", "o", "m", "c", "a", "s", "t">>,
                    <<"x", "f", "i", "n", "i", "t", "y", ".", "c", "o", "m">> >>],
       [biller |-> <<"C", "i", "t", "y", " ", "U", "t", "i", "l", "i", "t", "i", "e", "s">>,
         kws |-> << <<"U", "t", "i", "l", "i", "t", "y", " ", "B", "i", "l", "l", "i", "n", "g">>,
                    <<"C", "i", "t", "y", " ", "o", "f">>,
                    <<"W", "a", "t", "e", "r", " ", "B", "i", "l", "l">>,
                    <<"E", "l", "e", "c", "t", "r", "i", "c", " ", "B", "i", "l", "l">> >>] >>

UnknownBiller == <<"U", "n", "k", "n", "o", "w", "n">>

BillerMatches(p, lower) == \E k \in 1..Len(p.kws) : Contains(lower, Lower(p.kws[k]))

\* a lookup in which the last matching entry of the table wins
detect_billerLastWins(txt) ==
    IF ~Truthy(txt) THEN Str(UnknownBiller)
    ELSE LET lower == Lower(txt.s)
             hits == {i \in 1..Len(patterns) : BillerMatches(patterns[i], lower)}
         IN  IF hits = {} THEN Str(UnknownBiller)
             ELSE Str(patterns[CHOOSE i \in hits : \A j \in hits : i >= j].biller)

\* detect_biller(text): the first entry of the table with a matching keyword
detect_biller(txt) ==
    IF ~Truthy(txt) THEN Str(UnknownBiller)
    ELSE LET lower == Lower(txt.s)
             hits == {i \in 1..Len(patterns) : BillerMatches(patterns[i], lower)}
         IN  IF hits = {} THEN Str(UnknownBiller)
             ELSE Str(patterns[CHOOSE i \in hits : \A j \in hits : i <= j].biller)

-----------------------------------------------------------------------------
(* json.loads and the inference service *)

\* a non-empty str holding the JSON text of the value v
JsonStr(v) == [t |-> "jsonstr", v |-> v]
IsStr(v) == v.t \in {"str", "jsonstr"}

\* json.loads(x); a plain Str of the model never holds JSON text
json_loads(x) ==
    IF x.t = "jsonstr" THEN Ret(x.v)
    ELSE IF x.t = "str" THEN Raise("JSONDecodeError")
    ELSE Raise("TypeError")

\* what openai.ChatCompletion.create(...) followed by
\* resp["choices"][0]["message"]["content"] gives: an exception or the content
CallRaises == [k |-> "raise", content |-> None]
Content(c) == [k |-> "content", content |-> c]
\* no answer drawn yet
Unset == [k |-> "unset", content |-> None]

\* openai and OPENAI_API_KEY
AiConfigured == openai /\ OPENAI_API_KEY

FieldKeys ==
    {"invoiceNumber", "amount", "dueDateRaw", "routingNumber", "accountNumber", "payeeName"}
\* a fallback that returns an empty mapping
NoFields == EmptyDict

\* the fallback of lines 149 and 168
AllNullFields == Dict([k \in FieldKeys |-> None])

-----------------------------------------------------------------------------
(* call_openai_ocr_pdf, extract_text_from_pdf_bytes *)

\* call_openai_ocr_pdf(pdf_bytes) when the service answers `answer`
\* (the prompt, with its truncated base64 text, reaches only the service)
call_openai_ocr_pdf(bytes, answer) ==
    IF ~AiConfigured THEN [out |-> Str(<<>>), calls |-> <<>>]
    ELSE IF answer.k = "raise" THEN [out |-> Str(<<>>), calls |-> <<"ocr_call">>]
    ELSE [out |-> answer.content, calls |-> <<"ocr_call">>]

\* p.extract_text() or ""
PageText(p) == IF Truthy(p) THEN p.s ELSE <<>>

\* the text pdfplumber gives, "" when it is absent or raises
PlumberText(pa) ==
    IF pdfplumber /\ pa.k = "pages"
    THEN Str(Join([i \in 1..Len(pa.pages) |-> PageText(pa.pages[i])], <<"\n">>))
    ELSE Str(<<>>)

\* a fallback that runs whenever inference is configured
NeedsOcrAlways(pa) == AiConfigured

\* the fallback condition of line 119
NeedsOcr(pa) == ~Truthy(PlumberText(pa)) /\ AiConfigured

\* extract_text_from_pdf_bytes(pdf_bytes) when pdfplumber answers pa and the
\* service answers oa
extract_text_from_pdf_bytes(bytes, pa, oa) ==
    LET first == IF pdfplumber THEN <<"pdfplumber">> ELSE <<>>
        ocr == call_openai_ocr_pdf(bytes, oa)
    IN  IF NeedsOcr(pa)
        THEN [out |-> ocr.out, calls |-> first \o ocr.calls]
        ELSE [out |-> PlumberText(pa), calls |-> first]

-----------------------------------------------------------------------------
(* call_openai_extract_fields, normalize_due_date_via_openai *)

\* field extraction that asks the service about an empty text too
call_openai_extract_fieldsOnEmptyText(document_text, answer) ==
    IF ~AiConfigured
    THEN [out |-> AllNullFields, calls |-> <<>>]
    ELSE IF answer.k # "content" \/ json_loads(answer.content).exc # "none"
    THEN [out |-> AllNullFields, calls |-> <<"fields_call">>]
    ELSE [out |-> json_loads(answer.content).val, calls |-> <<"fields_call">>]

\* field extraction that calls the service a second time after a failure
call_openai_extract_fieldsRetrying(document_text, answer) ==
    IF ~AiConfigured \/ ~Truthy(document_text)
    THEN [out |-> AllNullFields, calls |-> <<>>]
    ELSE IF answer.k = "raise" \/ json_loads(answer.content).exc # "none"
    THEN [out |-> AllNullFields, calls |-> <<"fields_call", "fields_call">>]
    ELSE [out |-> json_loads(answer.content).val, calls |-> <<"fields_call">>]

\* call_openai_extract_fields(document_text) when the service answers `answer`
call_openai_extract_fields(document_text, answer) ==
    IF ~AiConfigured \/ ~Truthy(document_text)
    THEN [out |-> AllNullFields, calls |-> <<>>]
    ELSE IF answer.k = "raise" \/ json_loads(answer.content).exc # "none"
    THEN [out |-> AllNullFields, calls |-> <<"fields_call">>]
    ELSE [out |-> json_loads(answer.content).val, calls |-> <<"fields_call">>]

NotConfiguredNote == <<"a", "i", "-", "n", "o", "t", "-", "c", "o", "n", "f", "i", "g", "u", "r", "e", "d">>
FailedNote == <<"a", "i", "-", "f", "a", "i", "l", "e", "d">>

\* normalize_due_date_via_openai(due_date_raw) when the service answers `answer`
normalize_due_date_via_openai(due_date_raw, answer) ==
    IF ~AiConfigured \/ ~Truthy(due_date_raw)
    THEN [out |-> Dict([normalized |-> None, note |-> Str(NotConfiguredNote)]),
          calls |-> <<>>]
    ELSE IF answer.k = "raise" \/ json_loads(answer.content).exc # "none"
    THEN [out |-> Dict([normalized |-> None, note |-> Str(FailedNote)]),
          calls |-> <<"date_call">>]
    ELSE [out |-> json_loads(answer.content).val, calls |-> <<"date_call">>]

-----------------------------------------------------------------------------
(* Inputs: requests, documents and the answers of the collaborators *)

ValidRouting == <<"0", "2", "1", "0", "0", "0", "0", "2", "1">>
InvalidRouting == <<"1", "2", "3", "4", "5", "6", "7", "8", "9">>
DueText == <<"M", "a", "r", "c", "h", " ", "1", "5">>
IsoDate == <<"2", "0", "2", "4", "-", "0", "3", "-", "1", "5">>
PlainText == <<"h", "e", "l", "l", "o">>
XfinityText == <<"X", "f", "i", "n", "i", "t", "y", " ", "b", "i", "l", "l">>
AttText == <<"p", "a", "y", " ", "A", "T", "T">>
TwoBillersText == <<"C", "O", "M", "C", "A", "S", "T", " ", "a", "t", "t", ".", "c", "o", "m">>
WaterText == <<"W", "a", "t", "e", "r", " ", "B", "i", "l", "l">>
AmbiguousNote == <<"a", "m", "b", "i", "g", "u", "o", "u", "s">>
DefaultUserId == <<"d", "e", "m", "o">>
DefaultFileName == <<"u", "p", "l", "o", "a", "d", "e", "d", ".", "p", "d", "f">>
DocABC == <<"Q", "U", "J", "D">>
DocA == <<"Q", "Q", "=", "=">>
DocBangs == <<"!", "!", "!", "!">>
DocBangInside == <<"Q", "U", "!", "J", "D">>
DocBadPadding == <<"Q", "Q", "=">>
InvoiceText == <<"I", "N", "V", "-", "1">>

\* values of documentBase64
DocumentInputs ==
    { None, Str(<<>>), Num(0), Num(7),
      Str(DocABC), Str(DocA),
      Str(DocBangs), Str(DocBangInside),
      Str(DocBadPadding), Str(<<"Q">>), Str(<<"e_acute">>) }

\* request bodies that are JSON objects
BodyDicts ==
    { Dict([k \in {} |-> None]) }
    \cup { Dict([documentBase64 |-> d]) : d \in DocumentInputs }
    \cup { Dict([documentBase64 |-> Str(DocABC), correlationId |-> Str(<<"c", "1">>),
                 userId |-> Str(<<"u">>), fileName |-> Str(<<"f">>)]),
           Dict([correlationId |-> Str(<<"c", "1">>), documentType |-> Str(<<"p">>)]) }

\* the event argument: an API Gateway proxy event or anything else a caller passes
EventInputs ==
    { Dict([body |-> JsonStr(b)]) : b \in BodyDicts }
    \cup { Dict([body |-> b]) : b \in {None, Str(<<>>), Str(PlainText), JsonStr(List(0)),
                                       JsonStr(None), JsonStr(Num(5)), List(2),
                                       Dict([documentBase64 |-> Str(DocA)])} }
    \cup { Dict([k \in {} |-> None]), None, List(1),
           JsonStr(Dict([documentBase64 |-> Str(DocA)])) }

\* what pdfplumber does with the bytes: it raises, or gives pages whose
\* extract_text() is a str or None
PdfAnswers ==
    { [k |-> "raise", pages |-> <<>>] }
    \cup { [k |-> "pages", pages |-> p] :
             p \in { <<>>, <<None>>, <<Str(XfinityText)>>,
                     <<Str(AttText), None>>,
                     <<Str(TwoBillersText)>> } }
PdfUnset == [k |-> "unset", pages |-> <<>>]

OcrAnswers ==
    { CallRaises, Content(None), Content(Str(<<>>)), Content(Str(WaterText)) }

\* a six-key object with the given routingNumber and dueDateRaw
Fields(r, d) ==
    Dict([k \in FieldKeys |->
            CASE k = "routingNumber" -> r
              [] k = "dueDateRaw" -> d
              [] k = "invoiceNumber" -> Str(InvoiceText)
              [] OTHER -> None])

SupRouting == [i \in 1..RoutingLen |-> "sup2"]

FieldsObjects ==
    { AllNullFields, EmptyDict, Dict([amount |-> Str(<<"5">>)]),
      Dict([k \in FieldKeys \cup {"dueDate"} |-> None]) }
    \cup { Fields(r, None) :
             r \in { Str(ValidRouting), Str(InvalidRouting), Str(<<>>), Str(SupRouting),
                     Num(21000021), List(1), List(RoutingLen) } }
    \cup { Fields(r, Str(DueText)) : r \in {None, Str(ValidRouting), Str(InvalidRouting)} }
    \cup { Fields(None, Num(5)), Fields(None, Str(<<>>)),
           Dict([dueDateRaw |-> Str(DueText), dueDate |-> Str(IsoDate)]) }

FieldsAnswers ==
    { CallRaises, Content(None), Content(Str(PlainText)) }
    \cup { Content(JsonStr(v)) : v \in {None, Num(5), Str(<<"x">>), List(0), List(2)} }
    \cup { Content(JsonStr(o)) : o \in FieldsObjects }

DateAnswers ==
    { CallRaises, Content(None), Content(Str(PlainText)) }
    \cup { Content(JsonStr(v)) :
             v \in { None, Str(IsoDate), List(0), EmptyDict,
                     Dict([normalized |-> Str(IsoDate), note |-> None]),
                     Dict([normalized |-> None, note |-> Str(AmbiguousNote)]),
                     Dict([normalized |-> Str(IsoDate)]) } }

\* logger.info / requests.post return or raise
SinkAnswers == {"ok", "raise"}

\* the answers to draw from: any, or the one already given for this document
Answers(given, all, unset) == IF given = unset THEN all ELSE {given}

-----------------------------------------------------------------------------
(* lambda_handler *)

\* a local that no invocation has assigned yet
Unbound == [t |-> "unbound"]
NoResponse == [statusCode |-> 0]
NoEnv == [pdf |-> PdfUnset, ocr |-> Unset, fields |-> Unset, date |-> Unset,
          log |-> "unset", post |-> "unset"]

\* lines 194-198: the request body
ParseBody(ev) ==
    LET body_raw == IF ev.t = "dict" THEN Get(ev, "body") ELSE ev
        orEmpty == IF Truthy(body_raw) THEN body_raw ELSE EmptyDict
    IN  IF IsStr(body_raw) /\ json_loads(body_raw).exc = "none"
        THEN json_loads(body_raw).val
        ELSE orEmpty

\* f"cid-{int(time.time()*1000)}"
GeneratedCid(now) == [t |-> "str", s |-> <<"c", "i", "d", "-">>, n |-> now]

\* the except clause of lines 268-271
ServerError(e) ==
    [statusCode |-> 500, body |-> [error |-> "lambda-failed", detail |-> e]]
ClientError(msg) == [statusCode |-> 400, body |-> [error |-> msg]]

\* lines 191-203
Enter ==
    /\ pc = "idle"
    /\ start' = clock
    /\ clock' = clock + 1
    /\ LET b == ParseBody(event) IN
         IF b.t # "dict"
         THEN /\ response' = ServerError("AttributeError")
              /\ pc' = "done"
              /\ UNCHANGED <<body, correlation_id, document_b64>>
         ELSE /\ body' = b
              /\ correlation_id' =
                    IF Truthy(Get(b, "correlationId")) THEN Get(b, "correlationId")
                    ELSE GeneratedCid(clock)
              /\ document_b64' = Get(b, "documentBase64")
              /\ pc' = "parsed"
              /\ response' = NoResponse
    /\ UNCHANGED <<config, event, env, run, pdf_bytes, text, biller,
                   extracted, errors, norm, status, item, effects, last,
                   routingVars>>

\* lines 205-206
CheckDocument ==
    /\ pc = "parsed"
    /\ IF ~Truthy(document_b64)
       THEN /\ response' = ClientError("documentBase64 required")
            /\ pc' = "done"
       ELSE /\ pc' = "decode"
            /\ UNCHANGED response
    /\ UNCHANGED <<config, event, env, run, clock, start, body,
                   correlation_id, document_b64, pdf_bytes, text, biller,
                   extracted, errors, norm, status, item, effects, last,
                   routingVars>>

\* the decode that lets a failed decode fall through with no bytes
DecodeFallThrough ==
    /\ pc = "decode"
    /\ LET d == B64Decode(document_b64) IN
         /\ pdf_bytes' = IF d.exc # "none" THEN Bytes(<<>>) ELSE d.val
         /\ pc' = "extract_text"
         /\ response' = IF d.exc # "none" THEN ClientError("invalid base64") ELSE response
    /\ UNCHANGED <<config, event, env, run, clock, start, body,
                   correlation_id, document_b64, text, biller, extracted,
                   errors, norm, status, item, effects, last, routingVars>>

\* lines 208-211
Decode ==
    /\ pc = "decode"
    /\ LET d == B64Decode(document_b64) IN
         IF d.exc # "none"
         THEN /\ response' = ClientError("invalid base64")
              /\ pc' = "done"
              /\ UNCHANGED pdf_bytes
         ELSE /\ pdf_bytes' = d.val
              /\ pc' = "extract_text"
              /\ UNCHANGED response
    /\ UNCHANGED <<config, event, env, run, clock, start, body,
                   correlation_id, document_b64, text, biller, extracted,
                   errors, norm, status, item, effects, last, routingVars>>

\* line 213
ExtractText ==
    /\ pc = "extract_text"
    /\ \E pa \in (IF pdfplumber THEN Answers(env.pdf, PdfAnswers, PdfUnset) ELSE {env.pdf}) :
       \E oa \in (IF NeedsOcr(pa) THEN Answers(env.ocr, OcrAnswers, Unset) ELSE {env.ocr}) :
         LET r == extract_text_from_pdf_bytes(pdf_bytes, pa, oa) IN
           /\ text' = r.out
           /\ effects' = effects \o <<"extract_text">> \o r.calls
           /\ env' = [env EXCEPT !.pdf = pa, !.ocr = oa]
    /\ pc' = "classify"
    /\ UNCHANGED <<config, event, run, clock, start, body, correlation_id,
                   document_b64, pdf_bytes, biller, extracted, errors, norm,
                   status, item, response, last, routingVars>>

\* line 214
Classify ==
    /\ pc = "classify"
    /\ biller' = detect_biller(text)
    /\ effects' = Append(effects, "classify")
    /\ pc' = "extract_fields"
    /\ UNCHANGED <<config, event, env, run, clock, start, body,
                   correlation_id, document_b64, pdf_bytes, text, extracted,
                   errors, norm, status, item, response, last, routingVars>>

\* line 216
ExtractFields ==
    /\ pc = "extract_fields"
    /\ \E a \in (IF AiConfigured /\ Truthy(text)
                 THEN Answers(env.fields, FieldsAnswers, Unset) ELSE {env.fields}) :
         LET r == call_openai_extract_fields(text, a) IN
           /\ extracted' = r.out
           /\ effects' = effects \o <<"extract_fields">> \o r.calls
           /\ env' = [env EXCEPT !.fields = a]
    /\ pc' = "validate_routing"
    /\ UNCHANGED <<config, event, run, clock, start, body, correlation_id,
                   document_b64, pdf_bytes, text, biller, errors, norm,
                   status, item, response, last, routingVars>>

\* the FieldError of line 226
RoutingError ==
    [field |-> "routingNumber", reason |-> "Invalid ABA checksum",
     suggestedFix |-> None, confidence |-> "0.6"]
\* the FieldError of line 236
DueDateError(note) ==
    [field |-> "dueDate", reason |-> "Ambiguous date format",
     suggestedFix |-> note, confidence |-> "0.5"]

\* lines 218-226 with an errors list that outlives the invocation
ValidateRoutingSharedErrors ==
    /\ pc = "validate_routing"
    /\ LET prev == IF run = 1 THEN <<>> ELSE errors IN
       IF extracted.t # "dict"
       THEN /\ response' = ServerError("AttributeError")
            /\ pc' = "done"
            /\ errors' = prev
       ELSE LET routing == Get(extracted, "routingNumber")
                v == is_valid_routing_number(routing)
            IN  IF Truthy(routing) /\ v.exc # "none"
                THEN /\ response' = ServerError(v.exc)
                     /\ pc' = "done"
                     /\ errors' = prev
                ELSE /\ errors' = IF Truthy(routing) /\ ~Truthy(v.val)
                                  THEN Append(prev, RoutingError) ELSE prev
                     /\ pc' = "normalize"
                     /\ UNCHANGED response
    /\ effects' = Append(effects, "validate")
    /\ UNCHANGED <<config, event, env, run, clock, start, body,
                   correlation_id, document_b64, pdf_bytes, text, biller,
                   extracted, norm, status, item, last, routingVars>>

\* lines 218-226
ValidateRouting ==
    /\ pc = "validate_routing"
    /\ IF extracted.t # "dict"
       THEN /\ response' = ServerError("AttributeError")
            /\ pc' = "done"
            /\ errors' = <<>>
       ELSE LET routing == Get(extracted, "routingNumber")
                v == is_valid_routing_number(routing)
            IN  IF Truthy(routing) /\ v.exc # "none"
                THEN /\ response' = ServerError(v.exc)
                     /\ pc' = "done"
                     /\ errors' = <<>>
                ELSE /\ errors' = IF Truthy(routing) /\ ~Truthy(v.val)
                                  THEN <<RoutingError>> ELSE <<>>
                     /\ pc' = "normalize"
                     /\ UNCHANGED response
    /\ effects' = Append(effects, "validate")
    /\ UNCHANGED <<config, event, env, run, clock, start, body,
                   correlation_id, document_b64, pdf_bytes, text, biller,
                   extracted, norm, status, item, last, routingVars>>

\* extracted["dueDate"] = normalized
SetDueDate(d, normalized) ==
    Dict([k \in DOMAIN d.o \cup {"dueDate"} |->
            IF k = "dueDate" THEN normalized ELSE d.o[k]])

\* lines 228-236 with the dueDate error put at the head of the list
NormalizeDueDateErrorFirst ==
    /\ pc = "normalize"
    /\ LET due_raw == Get(extracted, "dueDateRaw") IN
       IF ~Truthy(due_raw)
       THEN /\ pc' = "assemble"
            /\ UNCHANGED <<extracted, errors, norm, response, effects, env>>
       ELSE \E a \in (IF AiConfigured THEN Answers(env.date, DateAnswers, Unset)
                      ELSE {env.date}) :
              LET r == normalize_due_date_via_openai(due_raw, a)
                  res == r.out
              IN  /\ effects' = effects \o r.calls
                  /\ env' = [env EXCEPT !.date = a]
                  /\ norm' = res
                  /\ IF res.t # "dict"
                     THEN /\ response' = ServerError("AttributeError")
                          /\ pc' = "done"
                          /\ UNCHANGED <<extracted, errors>>
                     ELSE /\ pc' = "assemble"
                          /\ UNCHANGED response
                          /\ IF Truthy(Get(res, "normalized"))
                             THEN /\ extracted' = SetDueDate(extracted, Get(res, "normalized"))
                                  /\ UNCHANGED errors
                             ELSE /\ errors' = <<DueDateError(Get(res, "note"))>> \o errors
                                  /\ UNCHANGED extracted
    /\ UNCHANGED <<config, event, run, clock, start, body, correlation_id,
                   document_b64, pdf_bytes, text, biller, status, item, last,
                   routingVars>>

\* lines 228-236
NormalizeDueDate ==
    /\ pc = "normalize"
    /\ LET due_raw == Get(extracted, "dueDateRaw") IN
       IF ~Truthy(due_raw)
       THEN /\ pc' = "assemble"
            /\ UNCHANGED <<extracted, errors, norm, response, effects, env>>
       ELSE \E a \in (IF AiConfigured THEN Answers(env.date, DateAnswers, Unset)
                      ELSE {env.date}) :
              LET r == normalize_due_date_via_openai(due_raw, a)
                  res == r.out
              IN  /\ effects' = effects \o r.calls
                  /\ env' = [env EXCEPT !.date = a]
                  /\ norm' = res
                  /\ IF res.t # "dict"
                     THEN /\ response' = ServerError("AttributeError")
                          /\ pc' = "done"
                          /\ UNCHANGED <<extracted, errors>>
                     ELSE /\ pc' = "assemble"
                          /\ UNCHANGED response
                          /\ IF Truthy(Get(res, "normalized"))
                             THEN /\ extracted' = SetDueDate(extracted, Get(res, "normalized"))
                                  /\ UNCHANGED errors
                             ELSE /\ errors' = Append(errors, DueDateError(Get(res, "note")))
                                  /\ UNCHANGED extracted
    /\ UNCHANGED <<config, event, run, clock, start, body, correlation_id,
                   document_b64, pdf_bytes, text, biller, status, item, last,
                   routingVars>>

StatusAlwaysApproved(errs) == "approved"

\* line 238
StatusOf(errs) == IF Len(errs) > 0 THEN "needs_review" ELSE "approved"

\* lines 238-251
Assemble ==
    /\ pc = "assemble"
    /\ status' = StatusOf(errors)
    /\ item' = [correlationId |-> correlation_id,
                userId |-> GetDefault(body, "userId", Str(DefaultUserId)),
                fileName |-> GetDefault(body, "fileName", Str(DefaultFileName)),
                status |-> StatusOf(errors),
                extracted |-> extracted,
                errors |-> errors,
                aiSuggestions |-> EmptyDict,
                billerDetected |-> biller,
                createdAt |-> clock,
                processingTimeMs |-> clock - start]
    /\ clock' = clock + 1
    /\ effects' = Append(effects, "assemble")
    /\ pc' = "log"
    /\ UNCHANGED <<config, event, env, run, start, body, correlation_id,
                   document_b64, pdf_bytes, text, biller, extracted, errors,
                   norm, response, last, routingVars>>

\* lines 253-257: the log line is written or logging raises; both go on
LogResult ==
    /\ pc = "log"
    /\ \E a \in Answers(env.log, SinkAnswers, "unset") :
         /\ env' = [env EXCEPT !.log = a]
         /\ effects' = Append(effects, IF a = "ok" THEN "log" ELSE "log_failed")
    /\ pc' = "callback"
    /\ UNCHANGED <<config, event, run, clock, start, body, correlation_id,
                   document_b64, pdf_bytes, text, biller, extracted, errors,
                   norm, status, item, response, last, routingVars>>

\* lines 259-264 without the try: a failed POST reaches the outer handler
CallbackPropagates ==
    /\ pc = "callback"
    /\ IF RESULTS_CALLBACK_URL
       THEN \E a \in Answers(env.post, SinkAnswers, "unset") :
              /\ env' = [env EXCEPT !.post = a]
              /\ effects' = Append(effects, IF a = "ok" THEN "post" ELSE "post_failed")
              /\ IF a = "ok"
                 THEN pc' = "return" /\ UNCHANGED response
                 ELSE pc' = "done" /\ response' = ServerError("ConnectionError")
       ELSE pc' = "return" /\ UNCHANGED <<env, effects, response>>
    /\ UNCHANGED <<config, event, run, clock, start, body, correlation_id,
                   document_b64, pdf_bytes, text, biller, extracted, errors,
                   norm, status, item, last, routingVars>>

\* lines 259-264
Callback ==
    /\ pc = "callback"
    /\ IF RESULTS_CALLBACK_URL
       THEN \E a \in Answers(env.post, SinkAnswers, "unset") :
              /\ env' = [env EXCEPT !.post = a]
              /\ effects' = Append(effects, IF a = "ok" THEN "post" ELSE "post_failed")
       ELSE UNCHANGED <<env, effects>>
    /\ pc' = "return"
    /\ UNCHANGED <<config, event, run, clock, start, body, correlation_id,
                   document_b64, pdf_bytes, text, biller, extracted, errors,
                   norm, status, item, response, last, routingVars>>

\* line 266
Return ==
    /\ pc = "return"
    /\ response' = [statusCode |-> 200,
                    body |-> [correlationId |-> correlation_id, status |-> status]]
    /\ pc' = "done"
    /\ UNCHANGED <<config, event, env, run, clock, start, body,
                   correlation_id, document_b64, pdf_bytes, text, biller,
                   extracted, errors, norm, status, item, effects, last,
                   routingVars>>

\* what an invocation produced, without its timestamps and correlation id
NoResult == [code |-> 0]
Produced ==
    IF response.statusCode = 200
    THEN [code |-> 200, extracted |-> item.extracted, errors |-> item.errors,
          status |-> item.status, biller |-> item.billerDetected]
    ELSE [code |-> response.statusCode, error |-> response.body.error]

\* the runtime invokes the handler again, in the same process, with the same
\* event; the collaborators answer as they did
NextInvocation ==
    /\ pc = "done"
    /\ run < MaxRuns
    /\ run' = run + 1
    /\ last' = Produced
    /\ effects' = <<>>
    /\ pc' = "idle"
    /\ UNCHANGED <<config, event, env, clock, start, body, correlation_id,
                   document_b64, pdf_bytes, text, biller, extracted, errors,
                   norm, status, item, response, routingVars>>

NotRun == [exc |-> "not-run", val |-> None]

Init ==
    /\ pdfplumber \in BOOLEAN
    /\ openai \in BOOLEAN
    /\ OPENAI_API_KEY \in BOOLEAN
    /\ RESULTS_CALLBACK_URL \in BOOLEAN
    /\ event \in EventInputs
    /\ env = NoEnv
    /\ run = 1
    /\ clock = 0
    /\ start = 0
    /\ pc = "idle"
    /\ body = Unbound /\ correlation_id = Unbound /\ document_b64 = Unbound
    /\ pdf_bytes = Unbound /\ text = Unbound /\ biller = Unbound
    /\ extracted = Unbound /\ errors = Unbound /\ norm = Unbound
    /\ status = Unbound /\ item = Unbound
    /\ response = NoResponse
    /\ effects = <<>>
    /\ last = NoResult
    /\ rn = None
    /\ rn_result = NotRun

Next ==
    \/ Enter
    \/ CheckDocument
    \/ Decode
    \/ ExtractText
    \/ Classify
    \/ ExtractFields
    \/ ValidateRouting
    \/ NormalizeDueDate
    \/ Assemble
    \/ LogResult
    \/ Callback
    \/ Return
    \/ NextInvocation

Spec == Init /\ [][Next]_vars

-----------------------------------------------------------------------------
(* is_valid_routing_number on its own, over strings *)

\* the ASCII digits "0" .. MaxDigit
SmallDigits == {DigitChars[i] : i \in 1..(MaxDigit + 1)}
\* characters that are not ASCII digits
OddChars == {"a", " ", "-", "sup2", "ar3"}
Zeros == [i \in 1..RoutingLen |-> "0"]

RoutingInputs ==
    { Str(d) : d \in [1..RoutingLen -> SmallDigits] }
    \cup { Str(ValidRouting), Str(InvalidRouting), Str(SupRouting),
           Str([i \in 1..RoutingLen |-> "ar3"]),
           Str(ValidRouting \o <<"0">>), Str(Zeros \o <<"0">>) }
    \cup { Str([b EXCEPT ![i] = c]) :
             b \in {ValidRouting, Zeros}, i \in 1..RoutingLen, c \in OddChars }
    \cup { Str(SubSeq(b, 1, n)) : b \in {ValidRouting, Zeros}, n \in 0..(RoutingLen - 1) }

RoutingInit ==
    /\ rn \in RoutingInputs
    /\ rn_result = NotRun
    /\ pc = "off"
    /\ pdfplumber = FALSE /\ openai = FALSE /\ OPENAI_API_KEY = FALSE
    /\ RESULTS_CALLBACK_URL = FALSE
    /\ event = None
    /\ env = NoEnv
    /\ run = 1 /\ clock = 0 /\ start = 0
    /\ body = Unbound /\ correlation_id = Unbound /\ document_b64 = Unbound
    /\ pdf_bytes = Unbound /\ text = Unbound /\ biller = Unbound
    /\ extracted = Unbound /\ errors = Unbound /\ norm = Unbound
    /\ status = Unbound /\ item = Unbound
    /\ response = NoResponse
    /\ effects = <<>>
    /\ last = NoResult

\* the call is_valid_routing_number(rn)
CallRouting ==
    /\ pc = "off"
    /\ rn_result = NotRun
    /\ rn_result' = is_valid_routing_number(rn)
    /\ UNCHANGED <<handlerVars, rn>>

SpecRouting == RoutingInit /\ [][CallRouting]_vars

-----------------------------------------------------------------------------
(* detect_biller on its own *)

\* the most words a text is made of
MaxWords == 2

\* every keyword of the table, as declared and in lower case
KeywordWords ==
    UNION { UNION { {patterns[i].kws[k], Lower(patterns[i].kws[k])} :
                      k \in 1..Len(patterns[i].kws) } : i \in 1..Len(patterns) }
\* words that are no keyword: plain words and pieces of keywords
NoiseWords == { PlainText, <<"A", "T">>, <<"C", "i", "t", "y">>, <<"B", "i", "l", "l">> }
BillerWords == KeywordWords \cup NoiseWords

\* the text argument: absent, empty, or up to MaxWords words
BillerTexts ==
    { None, Str(<<>>) }
    \cup UNION { { Str(Join(w, <<" ">>)) : w \in [1..n -> BillerWords] } : n \in 1..MaxWords }

BillerInit ==
    /\ text \in BillerTexts
    /\ biller = Unbound
    /\ pc = "off"
    /\ pdfplumber = FALSE /\ openai = FALSE /\ OPENAI_API_KEY = FALSE
    /\ RESULTS_CALLBACK_URL = FALSE
    /\ event = None
    /\ env = NoEnv
    /\ run = 1 /\ clock = 0 /\ start = 0
    /\ body = Unbound /\ correlation_id = Unbound /\ document_b64 = Unbound
    /\ pdf_bytes = Unbound
    /\ extracted = Unbound /\ errors = Unbound /\ norm = Unbound
    /\ status = Unbound /\ item = Unbound
    /\ response = NoResponse
    /\ effects = <<>>
    /\ last = NoResult
    /\ rn = None
    /\ rn_result = NotRun

\* the call detect_biller(text)
CallBiller ==
    /\ pc = "off"
    /\ biller = Unbound
    /\ biller' = detect_biller(text)
    /\ UNCHANGED <<config, event, env, run, clock, start, pc, body,
                   correlation_id, document_b64, pdf_bytes, text, extracted,
                   errors, norm, status, item, response, effects, last,
                   routingVars>>

SpecBiller == BillerInit /\ [][CallBiller]_vars

-----------------------------------------------------------------------------
(* Properties *)

\* the invocation got past Decode: text extraction has run
Decoded == Len(effects) > 0
Finished == pc = "done"

\* C1: once the document payload has decoded, lambda_handler returns
\* statusCode 200 whatever pdfplumber and the inference service do, including
\* answers that are not JSON or are JSON of an unexpected shape.
C1_DecodedAlwaysSucceeds ==
    (Finished /\ Decoded) => response.statusCode = 200

\* C2: whenever result assembly has been reached, status is "needs_review"
\* exactly when the errors list is non-empty and "approved" otherwise, and the
\* status in the 200 response body is that same status.
C2_StatusIffErrors ==
    /\ pc \in {"log", "callback", "return"} =>
         /\ (status = "needs_review") <=> (Len(errors) > 0)
         /\ (status = "approved") <=> (Len(errors) = 0)
         /\ item.status = status /\ item.errors = errors
    /\ (Finished /\ response.statusCode = 200) =>
         /\ response.body.status = status
         /\ (status = "needs_review") <=> (Len(errors) > 0)
         /\ (status = "approved") <=> (Len(errors) = 0)

C2_Witness ==
    /\ Finished /\ response.statusCode = 200
    /\ response.body.status = "needs_review" /\ Len(errors) = 2

\* C3: call_openai_extract_fields returns a mapping that holds all six keys
\* for every outcome of the inference call, with six nulls when inference is
\* unconfigured, the call fails or the response is malformed.
C3_SixKeysAlways ==
    pc = "validate_routing" =>
        /\ extracted.t = "dict"
        /\ FieldKeys \subseteq DOMAIN extracted.o
        /\ (~AiConfigured \/ env.fields.k = "raise"
              \/ (env.fields.k = "content" /\ json_loads(env.fields.content).exc # "none"))
             => extracted = AllNullFields

\* C4: normalize_due_date_via_openai always returns a record from which
\* normalized and note can be read, whatever the inference service responds,
\* and {normalized: null, note: "ai-failed"} when the call fails or the
\* response does not parse.
C4_NormIsTwoFieldRecord ==
    norm # Unbound =>
        /\ norm.t = "dict"
        /\ (env.date.k = "raise"
              \/ (env.date.k = "content" /\ json_loads(env.date.content).exc # "none"))
             => norm = Dict([normalized |-> None, note |-> Str(FailedNote)])

\* str.isdecimal(): the character is a decimal digit
CharIsDecimal(c) == IsAsciiDigit(c) \/ c = "ar3"
NineDecimalDigits(s) == Len(s) = 9 /\ \A i \in 1..Len(s) : CharIsDecimal(s[i])

\* C5: for every string that is not exactly nine decimal digits,
\* is_valid_routing_number returns false and does not raise.
C5_FalseOnEveryOtherString ==
    (rn_result # NotRun /\ ~NineDecimalDigits(rn.s)) => rn_result = Ret(Bool(FALSE))

\* the weighted sum of the nine digits d0..d8 of s
WeightedSum(s) ==
    LET d(i) == CharInt(s[i + 1])
    IN  3 * (d(0) + d(3) + d(6)) + 7 * (d(1) + d(4) + d(7)) + 1 * (d(2) + d(5) + d(8))

\* C6: for every string of nine decimal digits, is_valid_routing_number
\* returns true exactly when 3*(d0+d3+d6) + 7*(d1+d4+d7) + (d2+d5+d8) is
\* divisible by 10; "021000021" is valid and "123456789" is not.
C6_ChecksumRule ==
    (rn_result # NotRun /\ NineDecimalDigits(rn.s)) =>
        /\ rn_result = Ret(Bool(WeightedSum(rn.s) % 10 = 0))
        /\ rn.s = ValidRouting => rn_result = Ret(Bool(TRUE))
        /\ rn.s = InvalidRouting => rn_result = Ret(Bool(FALSE))

C6_Witness ==
    /\ rn.s = ValidRouting
    /\ rn_result = Ret(Bool(TRUE))

\* the request carries no document: the body is no object, or its
\* documentBase64 is absent, null or empty
DocumentMissing ==
    LET b == ParseBody(event)
    IN  b.t = "dict" => Get(b, "documentBase64") \in {None, Str(<<>>)}

\* C7: every request in which documentBase64 is missing ends with
\* statusCode 400 and the body {error: "documentBase64 required"}.
C7_MissingDocumentIs400 ==
    (Finished /\ DocumentMissing) => response = ClientError("documentBase64 required")

\* v is a str of base64 text: quads of alphabet characters, the last one
\* padded with at most two "="
WellFormedBase64(v) ==
    /\ v.t = "str"
    /\ Len(v.s) % 4 = 0
    /\ \E p \in 0..2 :
         /\ p <= Len(v.s)
         /\ \A i \in 1..Len(v.s) :
              IF i > Len(v.s) - p THEN v.s[i] = "=" ELSE IsB64Char(v.s[i])

\* C8: a documentBase64 that is present but is not valid base64 ends the
\* invocation with statusCode 400 and {error: "invalid base64"}, before text
\* extraction.
C8_InvalidBase64Is400 ==
    (/\ pc \notin {"idle", "parsed", "decode"}
     /\ document_b64 # Unbound
     /\ Truthy(document_b64)
     /\ ~WellFormedBase64(document_b64))
    => (Finished /\ response = ClientError("invalid base64") /\ ~Decoded)

\* C9: when Decode fails with a 400 outcome, no later stage has run and none
\* runs afterwards in that invocation: no text extraction, classification,
\* inference call, log line or notification POST.
C9_NothingRunsAfterDecodeFails ==
    response.statusCode = 400 => (effects = <<>> /\ pc \in {"done", "idle"})

C9_Witness ==
    Finished /\ response = ClientError("invalid base64") /\ effects = <<>>

\* C10: a second run on the same document, configuration and collaborator
\* answers produces the same FieldSet, FieldError list, status and biller as
\* the first (timestamps and a generated correlation id aside).
C10_RunsAgree ==
    (run > 1 /\ Finished) => Produced = last

C10_Witness ==
    /\ run > 1 /\ Finished
    /\ last.code = 200 /\ Len(last.errors) = 2
    /\ env.fields # Unset /\ env.date # Unset

\* every one of the six keys is there and null
SixNulls(d) ==
    /\ d.t = "dict"
    /\ \A k \in FieldKeys : k \in DOMAIN d.o /\ d.o[k] = None

\* how often e occurs in the sequence q
Count(q, e) == Cardinality({i \in 1..Len(q) : q[i] = e})
Occurs(q, e) == \E i \in 1..Len(q) : q[i] = e

\* C11: without inference configured, every request whose payload decodes
\* ends with six null fields, no FieldError and status "approved", whether or
\* not local extraction produced text; when it produced none, the text is
\* empty and the biller is "Unknown".
C11_NoInferenceApproves ==
    (Finished /\ Decoded /\ ~AiConfigured) =>
        /\ response.statusCode = 200
        /\ response.body.status = "approved"
        /\ SixNulls(item.extracted)
        /\ item.errors = <<>>
        /\ (~pdfplumber \/ env.pdf.k = "raise" \/ env.pdf.pages \in {<<>>, <<None>>})
             => (text = Str(<<>>) /\ item.billerDetected = Str(UnknownBiller))

C11_Witness ==
    /\ Finished /\ Decoded /\ ~AiConfigured
    /\ Truthy(text)
    /\ item.billerDetected # Str(UnknownBiller)
    /\ response.body.status = "approved"

\* C12: after a successful run the response is {correlationId, status} with
\* statusCode 200 whether the log line and the notification POST succeed or
\* raise; the POST is attempted at most once, only with a callback URL
\* configured and only after the result was assembled.
C12_SinksDoNotChangeResponse ==
    /\ (Finished /\ Occurs(effects, "assemble")) =>
          response = [statusCode |-> 200,
                      body |-> [correlationId |-> correlation_id,
                                status |-> item.status]]
    /\ Count(effects, "post") + Count(effects, "post_failed") <= 1
    /\ \A i \in 1..Len(effects) :
          effects[i] \in {"post", "post_failed"} =>
             /\ RESULTS_CALLBACK_URL
             /\ \E j \in 1..(i - 1) : effects[j] = "assemble"

C12_Witness ==
    /\ Finished /\ response.statusCode = 200
    /\ Occurs(effects, "log_failed") /\ Occurs(effects, "post_failed")

\* the value is there: the key exists and is not null
Present(d, k) == k \in DOMAIN d.o /\ d.o[k] # None
HasErrorFor(q, f) == \E i \in 1..Len(q) : q[i].field = f

\* C13: after the routing check the FieldError list holds the routingNumber
\* entry exactly when the extracted routingNumber is present (an empty
\* string included) and is_valid_routing_number returns false for it, and
\* never more than once.
C13_RoutingErrorIffInvalid ==
    pc = "normalize" =>
        /\ Occurs(errors, RoutingError) <=>
             (/\ Present(extracted, "routingNumber")
              /\ is_valid_routing_number(extracted.o["routingNumber"]) = Ret(Bool(FALSE)))
        /\ Count(errors, RoutingError) <= 1
        /\ HasErrorFor(errors, "routingNumber") => Occurs(errors, RoutingError)

\* the normalizer was called and gave a normalized value
NormalizedGiven == norm.t = "dict" /\ Truthy(Get(norm, "normalized"))
\* the normalizer was called and gave none
NormalizedMissing == norm.t = "dict" /\ ~Truthy(Get(norm, "normalized"))

DueResolved ==
    /\ NormalizedGiven
    /\ Present(extracted, "dueDate")
    /\ extracted.o["dueDate"] = Get(norm, "normalized")
    /\ ~HasErrorFor(errors, "dueDate")

DueFlagged ==
    /\ NormalizedMissing
    /\ Occurs(errors, DueDateError(Get(norm, "note")))
    /\ Count(errors, DueDateError(Get(norm, "note"))) = 1
    /\ ~Present(extracted, "dueDate")

\* C14: with dueDateRaw present, after validation either the normalizer gave
\* a value, dueDate is that value and there is no dueDate FieldError, or it
\* gave none, the dueDate FieldError carries its note and there is no
\* dueDate; the FieldSet has a dueDate only when normalization succeeded.
C14_DueDateResolvedOrFlagged ==
    pc = "assemble" =>
        /\ Present(extracted, "dueDateRaw") =>
             ((DueResolved \/ DueFlagged) /\ ~(DueResolved /\ DueFlagged))
        /\ Present(extracted, "dueDate") =>
             (Present(extracted, "dueDateRaw") /\ NormalizedGiven)

\* the position of the first e in q, 0 when there is none
IndexOf(q, e) == IF Occurs(q, e) THEN CHOOSE i \in 1..Len(q) : q[i] = e /\ \A j \in 1..(i - 1) : q[j] # e
                 ELSE 0

\* C15: in extract_text_from_pdf_bytes the local extraction is attempted
\* first, exactly when the library is available; the remote fallback is
\* invoked if and only if the local step gave empty text (or raised, or was
\* unavailable) and inference is configured, never after non-empty local text,
\* and at most once.
C15_FallbackIffEmptyAndConfigured ==
    Occurs(effects, "extract_text") =>
        /\ Occurs(effects, "pdfplumber") <=> pdfplumber
        /\ Occurs(effects, "ocr_call") <=>
              (AiConfigured /\ (~pdfplumber \/ env.pdf.k = "raise"
                                \/ PlumberText(env.pdf) = Str(<<>>)))
        /\ Count(effects, "ocr_call") <= 1
        /\ Count(effects, "pdfplumber") <= 1
        /\ (Occurs(effects, "pdfplumber") /\ Occurs(effects, "ocr_call"))
              => /\ IndexOf(effects, "extract_text") < IndexOf(effects, "pdfplumber")
                 /\ IndexOf(effects, "pdfplumber") < IndexOf(effects, "ocr_call")

\* local extraction gave text while inference is configured: no fallback
C15_Witness ==
    /\ pc = "classify"
    /\ AiConfigured
    /\ pdfplumber
    /\ env.pdf.k = "pages"
    /\ PlumberText(env.pdf) # Str(<<>>)
    /\ ~Occurs(effects, "ocr_call")

\* C16: extract_text_from_pdf_bytes never raises and always returns a string,
\* whatever the local library and the remote call do; the string is empty when
\* both steps yield nothing or the remote call raises.
C16_TextIsAlwaysAString ==
    pc = "classify" =>
        /\ text.t = "str"
        /\ (Occurs(effects, "ocr_call") /\ env.ocr = CallRaises) => text = Str(<<>>)
        /\ (~Occurs(effects, "ocr_call") /\ PlumberText(env.pdf) = Str(<<>>))
              => text = Str(<<>>)

\* the entries of the table one of whose keywords occurs in txt, ignoring case
MatchingEntries(txt) ==
    { i \in 1..Len(patterns) :
        \E k \in 1..Len(patterns[i].kws) :
           Contains(Lower(txt.s), Lower(patterns[i].kws[k])) }
DeclaredOrder ==
    << <<"A", "T", "&", "T">>,
       <<"X", "f", "i", "n", "i", "t", "y">>,
       <<"C", "i", "t", "y", " ", "U", "t", "i", "l", "i", "t", "i", "e", "s">> >>

\* C17: detect_biller returns "Unknown" for empty or absent text and for text
\* with none of the keywords; otherwise the first biller, in the declared
\* order AT&T, Xfinity, City Utilities, one of whose keywords occurs in the
\* text ignoring case.
C17_FirstDeclaredBillerWins ==
    (pc = "off" /\ biller # Unbound) =>
        IF text = None \/ text = Str(<<>>) THEN biller = Str(UnknownBiller)
        ELSE IF MatchingEntries(text) = {} THEN biller = Str(UnknownBiller)
        ELSE \E i \in MatchingEntries(text) :
               /\ \A j \in MatchingEntries(text) : i <= j
               /\ biller = Str(DeclaredOrder[i])

\* a text with keywords of two billers, reported as the earlier one
C17_Witness ==
    /\ pc = "off"
    /\ text # None
    /\ {1, 2} \subseteq MatchingEntries(text)
    /\ biller = Str(DeclaredOrder[1])

\* q holds at most a routingNumber error followed by a dueDate error
StageOrdered(q) ==
    /\ Len(q) <= 2
    /\ \A i, j \in 1..Len(q) : q[i].field = q[j].field => i = j
    /\ \A i, j \in 1..Len(q) :
          (q[i].field = "routingNumber" /\ q[j].field = "dueDate") => i < j

\* C18: the FieldError list is ordered by validation stage: a routingNumber
\* error precedes a dueDate error, the list never holds more than two entries
\* and never two for the same field.
C18_ErrorsInStageOrder ==
    /\ pc \in {"normalize", "assemble", "log", "callback", "return"} => StageOrdered(errors)
    /\ pc \in {"log", "callback", "return"} => StageOrdered(item.errors)

\* both validation stages reported an error
C18_Witness ==
    /\ pc = "log"
    /\ Len(item.errors) = 2
    /\ item.errors[1] = RoutingError
    /\ item.errors[2].field = "dueDate"

\* the stages and calls of one invocation, in pipeline order
StageOrder ==
    << {"extract_text"}, {"pdfplumber"}, {"ocr_call"}, {"classify"},
       {"extract_fields"}, {"fields_call"}, {"validate"}, {"date_call"},
       {"assemble"}, {"log", "log_failed"}, {"post", "post_failed"} >>
StageRank(e) == CHOOSE r \in 1..Len(StageOrder) : e \in StageOrder[r]

\* C19: in one invocation the stages run at most once each, in the order
\* Decode, ExtractText, Classify, ExtractFields, Validate, Assemble; at most
\* three inference calls are made (OCR fallback, field extraction, date
\* normalization), each at most once and in that order, none repeated after a
\* failure; date normalization is called only after field extraction returned
\* a present dueDateRaw.
C19_StagesOnceInOrder ==
    /\ \A i \in 1..Len(effects) : \E r \in 1..Len(StageOrder) : effects[i] \in StageOrder[r]
    /\ \A i, j \in 1..Len(effects) :
          i < j => StageRank(effects[i]) < StageRank(effects[j])
    /\ Occurs(effects, "extract_text") => pdf_bytes.t = "bytes"
    /\ Occurs(effects, "date_call") =>
          /\ Occurs(effects, "fields_call")
          /\ env.fields.k = "content"
          /\ Present(extracted, "dueDateRaw")

\* all three inference calls were made and the last one failed
C19_Witness ==
    /\ Finished
    /\ Occurs(effects, "ocr_call")
    /\ Occurs(effects, "fields_call")
    /\ Occurs(effects, "date_call")
    /\ env.date = CallRaises
    /\ response.statusCode = 200

\* C20: when text extraction yields empty text for a decoded document, even
\* with inference configured, no field-extraction or date-normalization call
\* is made, the FieldSet is all null, the biller is "Unknown", the FieldError
\* list is empty and the request ends "approved".
C20_EmptyTextIsApproved ==
    (Occurs(effects, "extract_text") /\ ~Truthy(text)) =>
        /\ ~Occurs(effects, "fields_call")
        /\ ~Occurs(effects, "date_call")
        /\ Occurs(effects, "classify") => biller = Str(UnknownBiller)
        /\ Occurs(effects, "extract_fields") => SixNulls(extracted)
        /\ Occurs(effects, "validate") => errors = <<>>
        /\ Finished =>
              /\ response.statusCode = 200
              /\ response.body.status = "approved"
              /\ item.status = "approved"
              /\ item.billerDetected = Str(UnknownBiller)
              /\ SixNulls(item.extracted)
              /\ item.errors = <<>>

\* the fallback was called and gave an empty text; the request is approved
C20_Witness ==
    /\ Finished
    /\ AiConfigured
    /\ Occurs(effects, "ocr_call")
    /\ text = Str(<<>>)
    /\ env.ocr = Content(Str(<<>>))
    /\ response.body.status = "approved"

=============================================================================
